---- MODULE Spec2Model ----
(***************************************************************************)
(* InsightFlow: the browser-extension client that uploads a Markdown       *)
(* document, triggers question generation, polls the file status and       *)
(* fetches the questions (fe/entrypoints/services/apiService.ts), and the  *)
(* backend pipeline it talks to (upload, generate, status, questions,      *)
(* delete).                                                                *)
(***************************************************************************)
EXTENDS Integers, FiniteSets, Sequences, TLC

(***************************************************************************)
(* Program constants of the client.                                        *)
(***************************************************************************)
\* pollFileStatus: const maxAttempts = 60
maxAttempts == 60
\* processAfterUpload passes interval = 3000 ms to pollFileStatus
PollInterval == 3000
\* pollFileStatus passes timeout = 5000 ms to fetchWithTimeout
StatusTimeout == 5000

(***************************************************************************)
(* Bounds of the model.                                                    *)
(***************************************************************************)
\* ticks of the interval that are explored beyond maxAttempts
ExtraTicks == 2

MaxTicks == maxAttempts + ExtraTicks

\* A status request is answered or rejected StatusTimeout ms after its tick at
\* the latest, and ticks are PollInterval ms apart: so many requests can be
\* waiting for their answer at the same time.
InFlightMax == (StatusTimeout + PollInterval - 1) \div PollInterval

(***************************************************************************)
(* What the server (or the network) can answer to a request of the client. *)
(* "Error" is a rejected fetch: network error, the timeout of              *)
(* fetchWithTimeout, or a body that response.json() cannot parse.          *)
(***************************************************************************)
HttpAnswers == {"Ok", "Http404", "Http500", "Error"}

StatusValues == {"Pending", "Processing", "Completed", "Failed", "Other"}

StatusAnswers == StatusValues \cup {"Http404", "Http500", "Error"}

(***************************************************************************)
(* The backend: documents, processing status, chunks and questions.        *)
(***************************************************************************)
Users == {"u1", "u2"}

\* "empty" is the empty document, "doc" a document the Chunker splits.
Contents == {"empty", "doc"}

\* number of chunks the Chunker makes of "doc"
DocChunks == 2

\* number of generate requests the backend receives
MaxTriggers == 2

\* number of generate requests received in the runs that also delete files
DelTriggers == 1

\* documents the clients upload: (user_id, content)
Uploadable == {<<"u1", "doc">>, <<"u2", "empty">>}

\* file_id of the document a user uploads: one per (user_id, content hash)
FileIdOf(u, c) == <<u, c>>

FileIds == {FileIdOf(uc[1], uc[2]) : uc \in Uploadable}

OwnerOf(f) == f[1]

\* chunk(document_text, max_chunk_size): the indices of the chunks
ChunkIndices(f) == IF f[2] = "empty" THEN {} ELSE 0 .. (DocChunks - 1)

ChunkKeys == {<<f, i>> : f \in FileIds, i \in 0 .. (DocChunks - 1)}

Procs == 1 .. MaxTriggers

StatusEnum == {"Pending", "Processing", "Completed", "Failed"}

\* outcomes of one language-model call of the Question Generator
CallOutcomes == {"ok", "malformed", "timeout"}

(***************************************************************************)
(* MainPage: the answer cache.                                             *)
(***************************************************************************)
\* loadAnswerForQuestion: const CACHE_DURATION = 3600000
CACHE_DURATION == 3600000

\* the clock advances by one millisecond or by LongStep, just under the
\* cache lifetime
LongStep == CACHE_DURATION - 1

\* number of steps of the clock
MaxClockTicks == 3

\* number of generateAnswer calls
MaxAnswerRequests == 3

\* the question list: two entries with the same text and one with another
QuestionTexts == {"q1", "q2"}
QuestionIndices == 0 .. 2
QuestionAt(i) == IF i = 2 THEN "q2" ELSE "q1"

\* answers the server gives; it need not give the same answer twice
Answers == {"a1", "a2"}

(***************************************************************************)
(* The options of the extension.                                           *)
(***************************************************************************)
defaultOptions ==
    [useDeffudle |-> "false", useReadability |-> "true",
     wrapInTripleBackticks |-> "false", showSuccessToast |-> "false",
     showConfetti |-> "false"]

\* Object.keys(defaultOptions)
OptionKeys == DOMAIN defaultOptions

\* the keys that the saveOptions calls name
SavedKeys == {"useDeffudle", "useReadability", "showConfetti"}

\* the arguments of saveOptions: Partial<OptionsState>, "unset" for a key
\* that the object does not have
SaveInputs ==
    {o \in [OptionKeys -> {"unset", "true", "false"}] :
        \A k \in OptionKeys \ SavedKeys : o[k] = "unset"}

\* number of storage calls that are rejected
MaxStorageFailures == 1

(***************************************************************************)
(* stringUtils: strings are sequences of UTF-16 code units.                *)
(***************************************************************************)
\* "I_dot" is U+0130; "i" with "dot" (U+0307) is its lower case
Chars == {"a", "A", "b", "I_dot"}

\* length of the strings passed to editDistance and similarity
MaxStrLen == 2

Strings == UNION {[1 .. n -> Chars] : n \in 0 .. MaxStrLen}

(***************************************************************************)
(* The simulated API.                                                      *)
(***************************************************************************)
\* const sampleQuestions = [...]: the eight sample questions, in order
sampleQuestions == <<"basis", "contrary", "exceptions", "connections",
                     "premise", "application", "stance", "deeper">>

\* texts passed to generateQuestion
SelectedTexts == {"", "long"}

\* Math.floor(Math.random() * 3) for Math.random() in [0, 1)
RandomSteps == 0 .. 2

\* enableImmersiveMode: content.trim().length < 500 does nothing
MinContentLength == 500

\* content.trim().length of the content passed to enableImmersiveMode
ContentLengths == {0, MinContentLength - 1, MinContentLength, MinContentLength + 1}

\* bounds of the content script: effective enableImmersiveMode calls between
\* two disableImmersiveMode calls, and messages received
MaxEnables == 2
MaxMessages == 3

\* the page the content script runs in, as the sequences of its elements in
\* document.head and document.body (each named by its id, or by its tag)
Heads == {<<"title">>, <<"title", "page-style">>}
Bodies == {<<"article">>, <<"nav", "article">>, <<"article", "footer">>}

\* request.action of the messages the listener receives; "null" is a
\* request that is null (request.action throws)
RequestActions == {"extractMainContent", "enableImmersiveMode", "other", "null"}

VARIABLES
    \* ---- client: uploadMarkdownContent / processAfterUpload / pollFileStatus
    cpc,            \* position of the uploadMarkdownContent call
    uploadAnswer,   \* answer to POST /upload, "None" before it arrived
    generateAnswer, \* answer to POST /questions/generate
    generateSent,   \* number of generate requests sent
    intervalActive, \* the setInterval of pollFileStatus exists and is not cleared
    attempts,       \* let attempts of pollFileStatus (= status requests sent)
    inflight,       \* status requests sent and not yet answered
    observed,       \* set of answers the ticks have handled so far
    lastTick,       \* what the tick handled last saw and did
    qInflight,      \* GET /questions requests sent and not yet answered
    questionsSent,  \* number of GET /questions requests sent
    onCompletedCalls,
    onFailedCalls,
    settled,        \* result the promise of uploadMarkdownContent settled with
    \* ---- backend
    metadata,       \* Metadata Store: number of document rows per file_id
    chunks,         \* Metadata Store: the chunk rows per (file_id, index), each
                    \* named by the pipeline task that inserted it (chunk_id)
    questions,      \* Metadata Store: question sets stored per (file_id, index)
    status,         \* Status Store: file_id -> status, "NotFound" = no entry
    proc,           \* generate requests and the pipeline runs they started
    resp,           \* the last HTTP response of the backend
    \* ---- MainPage: the answer cache
    now,            \* Date.now()
    answersCache,   \* question text -> {answer, timestamp}, or no entry
    displayedAnswers, \* index of the question list -> answer shown
    answerInflight, \* generateAnswer calls that have not settled: index
    answerRequests, \* number of generateAnswer calls made
    \* ---- options
    syncStorage,    \* browser.storage.sync: option key -> value, or "unset"
    gotOptions,     \* what the last getOptions call returned
    setSince,       \* per key, the value of the most recent saveOptions call
                    \* that named the key since the last resetOptions call
    storageFailures, \* number of storage calls that were rejected
    \* ---- stringUtils
    str1, str2,     \* the arguments s1 and s2
    edResult,       \* what editDistance(s1, s2) returned, -1 before the call
    simResult,      \* what similarity(s1, s2) returned, as <<numerator,
                    \* denominator>>; <<0, 0>> before the call
    \* ---- the simulated API
    simText,        \* the text passed to generateQuestion
    simPending,     \* the setTimeout of simulateAPICall has not fired
    simQuestions,   \* the questions the promise resolved with, <<>> before
    \* ---- MainPage: handleGenerate and handleExit
    exited,         \* handleExit has run after handleGenerate was started
    \* ---- content script: immersive mode and the message listener
    headHTML,       \* document.head.innerHTML
    bodyHTML,       \* document.body.innerHTML
    originalPageState, \* let originalPageState, NoPageState = null
    closeListeners, \* close buttons in the page with the click listener
    pageBefore,     \* the page before the first enable since the last disable
    enables,        \* effective enableImmersiveMode calls since the last disable
    lastCall,       \* which of enable / disable changed the page last
    request,        \* the message the listener handled last
    responses,      \* the sendResponse calls made for that message
    received        \* number of messages received

clientVars == <<cpc, uploadAnswer, generateAnswer, generateSent, intervalActive,
                attempts, inflight, observed, lastTick, qInflight, questionsSent,
                onCompletedCalls, onFailedCalls, settled>>

backendVars == <<metadata, chunks, questions, status, proc, resp>>

cacheVars == <<now, answersCache, displayedAnswers, answerInflight, answerRequests>>

optionVars == <<syncStorage, gotOptions, setSince, storageFailures>>

stringVars == <<str1, str2, edResult, simResult>>

simVars == <<simText, simPending, simQuestions>>

pageVars == <<exited>>

contentVars == <<headHTML, bodyHTML, originalPageState, closeListeners,
                 pageBefore, enables, lastCall, request, responses, received>>

uiVars == <<cacheVars, optionVars, stringVars, simVars, pageVars, contentVars>>

vars == <<clientVars, backendVars, uiVars>>

NoTick == [answer |-> "None", attempts |-> 0, clear |-> FALSE, cb |-> "none"]

ClientInit ==
    /\ cpc = "init"
    /\ uploadAnswer = "None"
    /\ generateAnswer = "None"
    /\ generateSent = 0
    /\ intervalActive = FALSE
    /\ attempts = 0
    /\ inflight = 0
    /\ observed = {}
    /\ lastTick = NoTick
    /\ qInflight = 0
    /\ questionsSent = 0
    /\ onCompletedCalls = 0
    /\ onFailedCalls = 0
    /\ settled = "None"

NoResp == [op |-> "none", fid |-> <<>>, code |-> 0, info |-> "", rows |-> {}]

IdleProc == [pc |-> "idle", fid |-> <<>>, next |-> 0, ok |-> {}]

\* a generate request that was answered, or a pipeline task that has ended
Ended(pc, f) == [pc |-> pc, fid |-> f, next |-> 0, ok |-> {}]

BackendInit ==
    /\ metadata = [f \in FileIds |-> 0]
    /\ chunks = [k \in ChunkKeys |-> {}]
    /\ questions = [k \in ChunkKeys |-> 0]
    /\ status = [f \in FileIds |-> "NotFound"]
    /\ proc = [p \in Procs |-> IdleProc]
    /\ resp = NoResp


NoEntry == [present |-> FALSE, answer |-> "", timestamp |-> 0]

CacheInit ==
    /\ now = 0
    /\ answersCache = [t \in QuestionTexts |-> NoEntry]
    /\ displayedAnswers = [i \in QuestionIndices |-> ""]
    /\ answerInflight = {}
    /\ answerRequests = 0

\* no getOptions call has returned
NoOptions == [k \in OptionKeys |-> "none"]

OptionsInit ==
    /\ syncStorage = [k \in OptionKeys |-> "unset"]
    /\ gotOptions = NoOptions
    /\ setSince = [k \in OptionKeys |-> "unset"]
    /\ storageFailures = 0

\* stringUtils is not in use
StringsIdle ==
    /\ str1 = <<>>
    /\ str2 = <<>>
    /\ edResult = -1
    /\ simResult = <<0, 0>>

SimInit ==
    /\ simText = ""
    /\ simPending = FALSE
    /\ simQuestions = <<>>

PageInit == exited = FALSE

\* let originalPageState = null
NoPageState == [headHTML |-> <<>>, bodyHTML |-> <<>>, saved |-> FALSE]

NoRequest == [action |-> "none", content |-> 0, throws |-> FALSE]

\* the content script has just been loaded into the page head, body
ContentLoaded(head, body) ==
    /\ headHTML = head
    /\ bodyHTML = body
    /\ originalPageState = NoPageState
    /\ closeListeners = 0
    /\ pageBefore = [headHTML |-> head, bodyHTML |-> body]
    /\ enables = 0
    /\ lastCall = "none"
    /\ request = NoRequest
    /\ responses = <<>>
    /\ received = 0

ContentInit == ContentLoaded(<<"title">>, <<"article">>)

UiInit ==
    CacheInit /\ OptionsInit /\ StringsIdle /\ SimInit /\ PageInit /\ ContentInit

\* initial states of the content script: loaded into any of the pages
InitContent ==
    /\ ClientInit /\ BackendInit
    /\ CacheInit /\ OptionsInit /\ StringsIdle /\ SimInit /\ PageInit
    /\ \E head \in Heads, body \in Bodies : ContentLoaded(head, body)

\* the arguments of editDistance and similarity are any two strings
InitStrings ==
    /\ ClientInit /\ BackendInit /\ CacheInit /\ OptionsInit /\ SimInit /\ PageInit
    /\ ContentInit
    /\ str1 \in Strings
    /\ str2 \in Strings
    /\ edResult = -1
    /\ simResult = <<0, 0>>

Init == ClientInit /\ BackendInit /\ UiInit

\* resolve() of the promise created in processAfterUpload: only the first call
\* settles it.
Resolve(cur, value) == IF cur = "None" THEN value ELSE cur

(***************************************************************************)
(* uploadMarkdownContent, up to the upload request being sent.             *)
(***************************************************************************)
uploadMarkdownContent ==
    /\ UNCHANGED <<backendVars, uiVars>>
    /\ cpc = "init"
    /\ cpc' = "upload"
    /\ UNCHANGED <<uploadAnswer, generateAnswer, generateSent, intervalActive,
                   attempts, inflight, observed, lastTick, qInflight,
                   questionsSent, onCompletedCalls, onFailedCalls, settled>>

\* if (!response.ok) return ...; else processAfterUpload(...)
UploadProceeds(a) == a = "Ok"

(***************************************************************************)
(* The upload answers: on a non-OK answer or a rejected fetch the call     *)
(* returns {questions: [], file_id: ''}; otherwise processAfterUpload      *)
(* sends the generate request.                                             *)
(***************************************************************************)
uploadAnswered ==
    /\ UNCHANGED <<backendVars, uiVars>>
    /\ cpc = "upload"
    /\ \E a \in HttpAnswers :
        /\ uploadAnswer' = a
        /\ IF UploadProceeds(a)
           THEN /\ cpc' = "generate"
                /\ generateSent' = generateSent + 1
                /\ settled' = settled
           ELSE /\ cpc' = "returned"
                /\ generateSent' = generateSent
                /\ settled' = Resolve(settled, "empty")
    /\ UNCHANGED <<generateAnswer, intervalActive, attempts, inflight, observed,
                   lastTick, qInflight, questionsSent, onCompletedCalls,
                   onFailedCalls>>

\* if (!generateResponse.ok) return ...; else pollFileStatus(...)
GenerateProceeds(a) == a = "Ok"

(***************************************************************************)
(* processAfterUpload after the generate request answered: on a non-OK     *)
(* answer or a rejected fetch it returns the empty list; otherwise it      *)
(* calls pollFileStatus, which creates the interval.                       *)
(***************************************************************************)
generateAnswered ==
    /\ UNCHANGED <<backendVars, uiVars>>
    /\ cpc = "generate"
    /\ \E a \in HttpAnswers :
        /\ generateAnswer' = a
        /\ IF GenerateProceeds(a)
           THEN /\ cpc' = "poll"
                /\ intervalActive' = TRUE
                /\ settled' = settled
           ELSE /\ cpc' = "returned"
                /\ intervalActive' = intervalActive
                /\ settled' = Resolve(settled, "empty")
    /\ UNCHANGED <<uploadAnswer, generateSent, attempts, inflight, observed,
                   lastTick, qInflight, questionsSent, onCompletedCalls,
                   onFailedCalls>>

(***************************************************************************)
(* One tick of the interval: attempts++ and the status request is sent.    *)
(***************************************************************************)
pollTick ==
    /\ UNCHANGED <<backendVars, uiVars>>
    /\ intervalActive
    /\ inflight < InFlightMax
    /\ attempts < MaxTicks
    /\ attempts' = attempts + 1
    /\ inflight' = inflight + 1
    /\ UNCHANGED <<cpc, uploadAnswer, generateAnswer, generateSent,
                   intervalActive, observed, lastTick, qInflight, questionsSent,
                   onCompletedCalls, onFailedCalls, settled>>

\* HandleStatus with the clearInterval of the 'Failed' case left out.
HandleStatus_FailedKeepsPolling(a, att) ==
    CASE a = "Completed" -> [clear |-> TRUE, cb |-> "completed"]
      [] a = "Failed" -> [clear |-> FALSE, cb |-> "failed"]
      [] a \in {"Processing", "Pending", "Http404", "Http500", "Error"} ->
            IF att >= maxAttempts THEN [clear |-> TRUE, cb |-> "failed"]
                                  ELSE [clear |-> FALSE, cb |-> "none"]
      [] OTHER -> [clear |-> FALSE, cb |-> "none"]

(***************************************************************************)
(* What a tick does with the answer a to its status request when the       *)
(* shared counter reads att: whether it clears the interval, and which     *)
(* callback it invokes.                                                    *)
(***************************************************************************)
HandleStatus(a, att) ==
    CASE a \in {"Http404", "Http500"} ->
            IF att >= maxAttempts THEN [clear |-> TRUE, cb |-> "failed"]
                                  ELSE [clear |-> FALSE, cb |-> "none"]
      [] a = "Completed" -> [clear |-> TRUE, cb |-> "completed"]
      [] a = "Failed" -> [clear |-> TRUE, cb |-> "failed"]
      [] a \in {"Processing", "Pending"} ->
            IF att >= maxAttempts THEN [clear |-> TRUE, cb |-> "failed"]
                                  ELSE [clear |-> FALSE, cb |-> "none"]
      [] a = "Error" ->
            IF att >= maxAttempts THEN [clear |-> TRUE, cb |-> "failed"]
                                  ELSE [clear |-> FALSE, cb |-> "none"]
      [] OTHER -> [clear |-> FALSE, cb |-> "none"]

(***************************************************************************)
(* A status request answers and its tick handles the answer.  onCompleted  *)
(* sends GET /questions; onFailed resolves the promise with the empty      *)
(* list.  A tick that is waiting for its answer is not cancelled by        *)
(* clearInterval.                                                          *)
(***************************************************************************)
pollTickAnswered ==
    /\ UNCHANGED <<backendVars, uiVars>>
    /\ inflight > 0
    /\ \E a \in StatusAnswers :
        LET h == HandleStatus(a, attempts) IN
        /\ inflight' = inflight - 1
        /\ observed' = observed \cup {a}
        /\ lastTick' = [answer |-> a, attempts |-> attempts,
                        clear |-> h.clear, cb |-> h.cb]
        /\ intervalActive' = (intervalActive /\ ~h.clear)
        /\ onCompletedCalls' = onCompletedCalls + (IF h.cb = "completed" THEN 1 ELSE 0)
        /\ onFailedCalls' = onFailedCalls + (IF h.cb = "failed" THEN 1 ELSE 0)
        /\ qInflight' = qInflight + (IF h.cb = "completed" THEN 1 ELSE 0)
        /\ questionsSent' = questionsSent + (IF h.cb = "completed" THEN 1 ELSE 0)
        /\ settled' = IF h.cb = "failed" THEN Resolve(settled, "empty") ELSE settled
    /\ UNCHANGED <<cpc, uploadAnswer, generateAnswer, generateSent, attempts>>

(***************************************************************************)
(* The onCompleted callback after GET /questions answered: it resolves     *)
(* with the question list on an OK answer and with the empty list          *)
(* otherwise.                                                              *)
(***************************************************************************)
questionsAnswered ==
    /\ UNCHANGED <<backendVars, uiVars>>
    /\ qInflight > 0
    /\ \E a \in HttpAnswers :
        /\ qInflight' = qInflight - 1
        /\ settled' = Resolve(settled, IF a = "Ok" THEN "questions" ELSE "empty")
    /\ UNCHANGED <<cpc, uploadAnswer, generateAnswer, generateSent,
                   intervalActive, attempts, inflight, observed, lastTick,
                   questionsSent, onCompletedCalls, onFailedCalls>>

ClientNext ==
    \/ uploadMarkdownContent
    \/ uploadAnswered
    \/ generateAnswered
    \/ pollTick
    \/ pollTickAnswered
    \/ questionsAnswered

SpecClient == Init /\ [][ClientNext]_vars

(***************************************************************************)
(* The backend handlers and the processing pipeline.                       *)
(***************************************************************************)
Response(op, f, code, info, rows) ==
    [op |-> op, fid |-> f, code |-> code, info |-> info, rows |-> rows]

\* AlreadyExists with the lookup of the stored document left out.
AlreadyExists_Never(f) == FALSE

\* Metadata Store: a document of this (user_id, content hash) is stored
AlreadyExists(f) == metadata[f] > 0

(***************************************************************************)
(* POST /upload/{user_id}: a duplicate upload returns the existing file_id *)
(* with 'File Already exists'; otherwise the document row is written and   *)
(* the status set to Pending.  A storage, database or cache error fails    *)
(* the call and leaves nothing behind.                                     *)
(***************************************************************************)
uploadFile ==
    /\ UNCHANGED <<clientVars, uiVars>>
    /\ \E uc \in Uploadable, infra \in {"ok", "error"} :
        LET f == FileIdOf(uc[1], uc[2]) IN
        IF AlreadyExists(f)
        THEN /\ resp' = Response("upload", f, 200, "File Already exists", {})
             /\ UNCHANGED <<metadata, chunks, questions, status, proc>>
        ELSE IF infra = "error"
        THEN /\ resp' = Response("upload", f, 500, "error", {})
             /\ UNCHANGED <<metadata, chunks, questions, status, proc>>
        ELSE /\ metadata' = [metadata EXCEPT ![f] = @ + 1]
             /\ status' = [status EXCEPT ![f] = "Pending"]
             /\ resp' = Response("upload", f, 200, "Upload Completed", {})
             /\ UNCHANGED <<chunks, questions, proc>>

\* the idempotent-start guard: proceed only if the status read is Pending
StartAllowed(st) == st = "Pending"

(***************************************************************************)
(* POST /questions/generate/{user_id}/{file_id}: reads the status; if it   *)
(* is Pending a background pipeline task is launched, otherwise the call   *)
(* is a no-op that returns the current status.                             *)
(***************************************************************************)
generateQuestions ==
    /\ UNCHANGED <<clientVars, uiVars>>
    /\ \E p \in Procs, f \in FileIds :
        /\ proc[p].pc = "idle"
        /\ \A q \in Procs : q < p => proc[q].pc # "idle"
        /\ proc' = [proc EXCEPT ![p] =
                [@ EXCEPT !.fid = f,
                          !.pc = IF StartAllowed(status[f]) THEN "start" ELSE "noop"]]
        /\ UNCHANGED <<metadata, chunks, questions, status, resp>>

(***************************************************************************)
(* The pipeline task starts: Status Store set(file_id, Processing).        *)
(***************************************************************************)
pipelineStart ==
    /\ UNCHANGED <<clientVars, uiVars>>
    /\ \E p \in Procs :
        /\ proc[p].pc = "start"
        /\ status' = [status EXCEPT ![proc[p].fid] = "Processing"]
        /\ proc' = [proc EXCEPT ![p].pc = "load"]
        /\ UNCHANGED <<metadata, chunks, questions, resp>>

\* the chunk rows of f cannot be inserted: the document row is gone, or rows
\* with the same (file_id, chunk_index) exist
ChunkInsertFails(f) ==
    \/ metadata[f] = 0
    \/ \E i \in ChunkIndices(f) : chunks[<<f, i>>] # {}

(***************************************************************************)
(* The pipeline loads the document, runs the Chunker and persists the      *)
(* chunks.  A storage or database error here is fatal: Failed.  An empty   *)
(* chunk sequence short-circuits to Completed.                             *)
(***************************************************************************)
pipelineLoad ==
    /\ UNCHANGED <<clientVars, uiVars>>
    /\ \E p \in Procs, storage \in {"ok", "error"} :
        LET f == proc[p].fid IN
        /\ proc[p].pc = "load"
        /\ IF storage = "error" \/ ChunkInsertFails(f)
           THEN /\ status' = [status EXCEPT ![f] = "Failed"]
                /\ proc' = [proc EXCEPT ![p] = Ended("aborted", f)]
                /\ UNCHANGED chunks
           ELSE /\ chunks' = [k \in ChunkKeys |->
                        IF k[1] = f /\ k[2] \in ChunkIndices(f)
                        THEN chunks[k] \cup {p} ELSE chunks[k]]
                /\ IF ChunkIndices(f) = {}
                   THEN /\ status' = [status EXCEPT ![f] = "Completed"]
                        /\ proc' = [proc EXCEPT ![p] = Ended("done", f)]
                   ELSE /\ status' = status
                        /\ proc' = [proc EXCEPT ![p].pc = "gen"]
        /\ UNCHANGED <<metadata, questions, resp>>

\* generate(chunk_text, target_count): a malformed output is retried once,
\* a timeout is a chunk-level failure
GenerationSucceeds(r1, r2) == r1 = "ok" \/ (r1 = "malformed" /\ r2 = "ok")

\* AfterChunk that gives up on the document at the first chunk that fails.
AfterChunk_StopsAtFailure(f, i, succeeded) ==
    IF succeeded /\ i + 1 \in ChunkIndices(f) THEN "gen" ELSE "finish"

\* what a run does after the chunk at index i was attempted
AfterChunk(f, i, succeeded) ==
    IF i + 1 \in ChunkIndices(f) THEN "gen" ELSE "finish"

(***************************************************************************)
(* The Question Generator runs on the next chunk and its questions are     *)
(* persisted; a chunk whose generation fails is skipped.                   *)
(***************************************************************************)
pipelineGenerate ==
    /\ UNCHANGED <<clientVars, uiVars>>
    /\ \E p \in Procs, r1 \in CallOutcomes, r2 \in CallOutcomes :
        LET f == proc[p].fid
            i == proc[p].next
            \* the questions reference the chunk row this task inserted
            stored == GenerationSucceeds(r1, r2) /\ p \in chunks[<<f, i>>]
        IN
        /\ proc[p].pc = "gen"
        /\ questions' = IF stored THEN [questions EXCEPT ![<<f, i>>] = @ + 1]
                                  ELSE questions
        /\ proc' = [proc EXCEPT ![p].next = i + 1,
                                ![p].ok = IF stored THEN @ \cup {i} ELSE @,
                                ![p].pc = AfterChunk(f, i, stored)]
        /\ UNCHANGED <<metadata, chunks, status, resp>>

\* Completed if at least one chunk succeeded, Failed if all chunks failed
FinalStatus(ok) == IF ok # {} THEN "Completed" ELSE "Failed"

(***************************************************************************)
(* All chunks were attempted: the pipeline sets the final status.          *)
(***************************************************************************)
pipelineFinish ==
    /\ UNCHANGED <<clientVars, uiVars>>
    /\ \E p \in Procs :
        /\ proc[p].pc = "finish"
        /\ status' = [status EXCEPT ![proc[p].fid] = FinalStatus(proc[p].ok)]
        /\ proc' = [proc EXCEPT ![p] = Ended("done", proc[p].fid)]
        /\ UNCHANGED <<metadata, chunks, questions, resp>>

\* get(file_id) of the Status Store adapter, as GET /file_status answers it
FileStatusResponse(f) ==
    IF status[f] = "NotFound"
    THEN Response("file_status", f, 404, "NotFound", {})
    ELSE Response("file_status", f, 200, status[f], {})

(***************************************************************************)
(* GET /file_status/{file_id}                                              *)
(***************************************************************************)
getFileStatus ==
    /\ UNCHANGED <<clientVars, uiVars>>
    /\ \E f \in FileIds : resp' = FileStatusResponse(f)
    /\ UNCHANGED <<metadata, chunks, questions, status, proc>>

\* QuestionsResponse without the check of the Redis status.
QuestionsResponse_NoStatusCheck(f) ==
    IF \A i \in ChunkIndices(f) : chunks[<<f, i>>] = {}
    THEN Response("questions", f, 404, "no chunks", {})
    ELSE Response("questions", f, 200, "questions",
                  {i \in ChunkIndices(f) : questions[<<f, i>>] > 0})

\* GET /questions/{file_id}: 400 if processing is not completed, 404 if the
\* file has no chunks, else the questions of its chunks
QuestionsResponse(f) ==
    IF status[f] # "Completed"
    THEN Response("questions", f, 400, "not completed", {})
    ELSE IF \A i \in ChunkIndices(f) : chunks[<<f, i>>] = {}
    THEN Response("questions", f, 404, "no chunks", {})
    ELSE Response("questions", f, 200, "questions",
                  {i \in ChunkIndices(f) : questions[<<f, i>>] > 0})

(***************************************************************************)
(* GET /questions/{file_id}                                                *)
(***************************************************************************)
getQuestions ==
    /\ UNCHANGED <<clientVars, uiVars>>
    /\ \E f \in FileIds : resp' = QuestionsResponse(f)
    /\ UNCHANGED <<metadata, chunks, questions, status, proc>>

\* the rows of the chunks (or questions) table after the cascading delete of f
CascadeDelete(rows, f, none) ==
    [k \in ChunkKeys |-> IF k[1] = f THEN none ELSE rows[k]]

\* RemoveStatus that leaves the entry in the Status Store.
RemoveStatus_Keeps(st, f) == st

\* the Status Store after the status entry of f was removed
RemoveStatus(st, f) == [st EXCEPT ![f] = "NotFound"]

(***************************************************************************)
(* DELETE /delete/{user_id}/{file_id}: 404 if the user has no such file;   *)
(* otherwise the document, its chunks and questions and its status entry   *)
(* are removed.                                                            *)
(***************************************************************************)
deleteFile ==
    /\ UNCHANGED <<clientVars, uiVars>>
    /\ \E u \in Users, f \in FileIds :
        IF metadata[f] = 0 \/ OwnerOf(f) # u
        THEN /\ resp' = Response("delete", f, 404, "File not found", {})
             /\ UNCHANGED <<metadata, chunks, questions, status, proc>>
        ELSE /\ metadata' = [metadata EXCEPT ![f] = 0]
             /\ chunks' = CascadeDelete(chunks, f, {})
             /\ questions' = CascadeDelete(questions, f, 0)
             /\ status' = RemoveStatus(status, f)
             /\ resp' = Response("delete", f, 200, "deleted", {})
             /\ UNCHANGED proc

PipelineNext ==
    \/ uploadFile
    \/ generateQuestions
    \/ pipelineStart
    \/ pipelineLoad
    \/ pipelineGenerate
    \/ pipelineFinish
    \/ getFileStatus
    \/ getQuestions

\* upload, generate, the pipeline and the queries
SpecBackend == Init /\ [][PipelineNext]_vars

\* the same with DELETE /delete
\* generate requests while files are also deleted
generateBeforeDelete ==
    /\ Cardinality({p \in Procs : proc[p].pc # "idle"}) < DelTriggers
    /\ generateQuestions

DeleteNext ==
    \/ uploadFile
    \/ generateBeforeDelete
    \/ pipelineStart
    \/ pipelineLoad
    \/ pipelineGenerate
    \/ pipelineFinish
    \/ deleteFile

SpecBackendDel == Init /\ [][DeleteNext]_vars

(***************************************************************************)
(* MainPage: loadAnswerForQuestion and the answer cache.                   *)
(***************************************************************************)
ClockTicks(t) == (t \div LongStep) + (t % LongStep)

\* time passes
clockAdvance ==
    /\ ClockTicks(now) < MaxClockTicks
    /\ \E d \in {1, LongStep} : now' = now + d
    /\ UNCHANGED <<answersCache, displayedAnswers, answerInflight, answerRequests>>
    /\ UNCHANGED <<clientVars, backendVars, optionVars, stringVars, simVars, pageVars, contentVars>>

\* CacheHit without the test of the entry's age.
CacheHit_NoExpiry(cachedAnswer, t) == cachedAnswer.present

\* if (cachedAnswer && Date.now() - cachedAnswer.timestamp < CACHE_DURATION)
CacheHit(cachedAnswer, t) ==
    cachedAnswer.present /\ t - cachedAnswer.timestamp < CACHE_DURATION

\* loadAnswerForQuestion(index, question) up to the await of generateAnswer
loadAnswerForQuestion(index) ==
    LET cachedAnswer == answersCache[QuestionAt(index)] IN
    /\ IF CacheHit(cachedAnswer, now)
       THEN /\ displayedAnswers' = [displayedAnswers EXCEPT ![index] = cachedAnswer.answer]
            /\ UNCHANGED <<answerInflight, answerRequests>>
       ELSE /\ answerRequests < MaxAnswerRequests
            /\ answerRequests' = answerRequests + 1
            /\ answerInflight' = answerInflight \cup {index}
            /\ UNCHANGED displayedAnswers
    /\ UNCHANGED <<now, answersCache>>
    /\ UNCHANGED <<clientVars, backendVars, optionVars, stringVars, simVars, pageVars, contentVars>>

loadAnswer == \E index \in QuestionIndices : loadAnswerForQuestion(index)

\* generateAnswer resolved with an answer: the cache entry is written with
\* the time of the answer, and the answer is shown
answerResolved(index, answer) ==
    /\ index \in answerInflight
    /\ answerInflight' = answerInflight \ {index}
    /\ answersCache' = [answersCache EXCEPT ![QuestionAt(index)] =
                          [present |-> TRUE, answer |-> answer, timestamp |-> now]]
    /\ displayedAnswers' = [displayedAnswers EXCEPT ![index] = answer]
    /\ UNCHANGED <<now, answerRequests>>
    /\ UNCHANGED <<clientVars, backendVars, optionVars, stringVars, simVars, pageVars, contentVars>>

\* generateAnswer rejected (non-OK answer, network error, timeout): the
\* error text is shown
answerRejected(index) ==
    /\ index \in answerInflight
    /\ answerInflight' = answerInflight \ {index}
    /\ displayedAnswers' = [displayedAnswers EXCEPT ![index] = "failed"]
    /\ UNCHANGED <<now, answersCache, answerRequests>>
    /\ UNCHANGED <<clientVars, backendVars, optionVars, stringVars, simVars, pageVars, contentVars>>

answerSettled ==
    \E index \in QuestionIndices :
        \/ \E answer \in Answers : answerResolved(index, answer)
        \/ answerRejected(index)

CacheNext ==
    \/ clockAdvance
    \/ loadAnswer
    \/ answerSettled

SpecCache == Init /\ [][CacheNext]_vars

(***************************************************************************)
(* getOptions, saveOptions and resetOptions.  A call of browser.storage    *)
(* either succeeds (ok) or is rejected; the functions catch the rejection. *)
(***************************************************************************)
Rejects(ok) ==
    /\ ~ok => storageFailures < MaxStorageFailures
    /\ storageFailures' = storageFailures + (IF ok THEN 0 ELSE 1)

\* MergedOptions with the defaults spread last.
MergedOptions_DefaultsLast(result) == defaultOptions

\* { ...defaultOptions, ...result }
MergedOptions(result) ==
    [k \in OptionKeys |-> IF result[k] # "unset" THEN result[k] ELSE defaultOptions[k]]

getOptions(ok) ==
    /\ Rejects(ok)
    /\ gotOptions' = IF ok THEN MergedOptions(syncStorage) ELSE defaultOptions
    /\ UNCHANGED <<syncStorage, setSince>>
    /\ UNCHANGED <<clientVars, backendVars, cacheVars, stringVars, simVars, pageVars, contentVars>>

\* browser.storage.sync.set(options): the keys of options are written
StorageSet(store, options) ==
    [k \in OptionKeys |-> IF options[k] # "unset" THEN options[k] ELSE store[k]]

saveOptions(options, ok) ==
    /\ Rejects(ok)
    /\ syncStorage' = IF ok THEN StorageSet(syncStorage, options) ELSE syncStorage
    /\ setSince' = StorageSet(setSince, options)
    /\ UNCHANGED gotOptions
    /\ UNCHANGED <<clientVars, backendVars, cacheVars, stringVars, simVars, pageVars, contentVars>>

\* browser.storage.sync.clear()
StorageClear(store) == [k \in OptionKeys |-> "unset"]

resetOptions(ok) ==
    /\ Rejects(ok)
    /\ syncStorage' = IF ok THEN StorageClear(syncStorage) ELSE syncStorage
    /\ setSince' = [k \in OptionKeys |-> "unset"]
    /\ UNCHANGED gotOptions
    /\ UNCHANGED <<clientVars, backendVars, cacheVars, stringVars, simVars, pageVars, contentVars>>

OptionsNext ==
    \/ \E ok \in BOOLEAN : getOptions(ok)
    \/ \E options \in SaveInputs, ok \in BOOLEAN : saveOptions(options, ok)
    \/ \E ok \in BOOLEAN : resetOptions(ok)

SpecOptions == Init /\ [][OptionsNext]_vars

(***************************************************************************)
(* stringUtils: editDistance and similarity.                               *)
(***************************************************************************)
\* String.prototype.toLowerCase of one code unit
LowerOf(c) ==
    CASE c = "A" -> <<"a">>
      [] c = "I_dot" -> <<"i", "dot">>
      [] OTHER -> <<c>>

RECURSIVE toLowerCase(_)
toLowerCase(str) ==
    IF str = <<>> THEN <<>> ELSE LowerOf(Head(str)) \o toLowerCase(Tail(str))

Min(x, y) == IF x < y THEN x ELSE y

\* NewValue without the comparison with costs[j].
NewValue_TwoWay(sameChar, diagonal, lastValue, above) ==
    IF sameChar THEN diagonal ELSE Min(diagonal, lastValue) + 1

\* let newValue = costs[j - 1]; if the characters differ,
\* newValue = Math.min(Math.min(newValue, lastValue), costs[j]) + 1
NewValue(sameChar, diagonal, lastValue, above) ==
    IF sameChar THEN diagonal ELSE Min(Min(diagonal, lastValue), above) + 1

\* the inner loop of editDistance for i > 0, from j on: the costs array
\* when the row ends, costs[s2.length] = lastValue included
RECURSIVE InnerLoop(_, _, _, _, _, _)
InnerLoop(a, b, i, j, costs, lastValue) ==
    IF j > Len(b)
    THEN [costs EXCEPT ![Len(b)] = lastValue]
    ELSE LET newValue == NewValue(a[i] = b[j], costs[j - 1], lastValue, costs[j])
         IN InnerLoop(a, b, i, j + 1, [costs EXCEPT ![j - 1] = lastValue], newValue)

\* the outer loop of editDistance from row i > 0 on
RECURSIVE OuterLoop(_, _, _, _)
OuterLoop(a, b, i, costs) ==
    IF i > Len(a) THEN costs
    ELSE OuterLoop(a, b, i + 1, InnerLoop(a, b, i, 1, costs, i))

editDistance(s1, s2) ==
    LET a == toLowerCase(s1)
        b == toLowerCase(s2)
        row0 == [j \in 0 .. Len(b) |-> j]
    IN OuterLoop(a, b, 1, row0)[Len(b)]

\* similarity(s1, s2) as <<numerator, denominator>>; 1.0 is <<1, 1>>
similarity(s1, s2) ==
    LET longer == IF Len(s1) < Len(s2) THEN s2 ELSE s1
        shorter == IF Len(s1) < Len(s2) THEN s1 ELSE s2
        longerLength == Len(longer)
    IN IF longerLength = 0 THEN <<1, 1>>
       ELSE <<longerLength - editDistance(longer, shorter), longerLength>>

callEditDistance ==
    /\ edResult' = editDistance(str1, str2)
    /\ UNCHANGED <<str1, str2, simResult>>
    /\ UNCHANGED <<clientVars, backendVars, cacheVars, optionVars, simVars, pageVars, contentVars>>

callSimilarity ==
    /\ simResult' = similarity(str1, str2)
    /\ UNCHANGED <<str1, str2, edResult>>
    /\ UNCHANGED <<clientVars, backendVars, cacheVars, optionVars, simVars, pageVars, contentVars>>

StringsNext ==
    \/ callEditDistance
    \/ callSimilarity

SpecStrings == InitStrings /\ [][StringsNext]_vars

(***************************************************************************)
(* The simulated API: generateQuestion of the first apiService.            *)
(***************************************************************************)
\* [...sampleQuestions].sort(() => 0.5 - Math.random()): the comparator is
\* not consistent, so the order is whatever the engine's sort makes of the
\* answers; the result is a permutation of the array
Shuffles ==
    {[i \in 1 .. Len(sampleQuestions) |-> sampleQuestions[f[i]]] :
        f \in Permutations(1 .. Len(sampleQuestions))}

\* NumberOfQuestions with Math.ceil in place of Math.floor.
NumberOfQuestions_Ceil(r) == r + 1 + 5

\* Math.floor(Math.random() * 3) + 5
NumberOfQuestions(r) == r + 5

\* generateQuestion(text): simulateAPICall starts the timer
generateQuestion ==
    /\ ~simPending
    /\ \E text \in SelectedTexts : simText' = text
    /\ simPending' = TRUE
    /\ simQuestions' = <<>>
    /\ UNCHANGED <<clientVars, backendVars, cacheVars, optionVars, stringVars, pageVars, contentVars>>

\* the timer fires after 800 ms and the promise resolves
simulateAPICall ==
    /\ simPending
    /\ simPending' = FALSE
    /\ \E shuffled \in Shuffles, r \in RandomSteps :
        simQuestions' = SubSeq(shuffled, 1, NumberOfQuestions(r))
    /\ UNCHANGED simText
    /\ UNCHANGED <<clientVars, backendVars, cacheVars, optionVars, stringVars, pageVars, contentVars>>

SimNext ==
    \/ generateQuestion
    \/ simulateAPICall

SpecSim == Init /\ [][SimNext]_vars

(***************************************************************************)
(* The content script: immersive mode (enableImmersiveMode,                *)
(* disableImmersiveMode) and the chrome.runtime.onMessage listener.  The   *)
(* page is the sequence of the elements of document.head and of            *)
(* document.body; innerHTML is that sequence, and assigning it builds the  *)
(* elements anew, without the event listeners the old ones had.            *)
(***************************************************************************)
\* const elementsToRemove of disableImmersiveMode
elementsToRemove == <<"immersive-reading-style", "immersive-container",
                      "question-sidebar", "immersive-close">>

Range(seq) == {seq[i] : i \in 1 .. Len(seq)}

\* positions of the elements with this id in a sequence of elements
PositionsOf(seq, id) == {i \in 1 .. Len(seq) : seq[i] = id}

\* the sequence without its element at position pos
RemoveAt(seq, pos) == [i \in 1 .. Len(seq) - 1 |-> IF i < pos THEN seq[i] ELSE seq[i + 1]]

\* element.remove() of the first element with this id, if there is one
RemoveFirst(seq, id) ==
    IF PositionsOf(seq, id) = {} THEN seq
    ELSE RemoveAt(seq, CHOOSE i \in PositionsOf(seq, id) :
                           \A j \in PositionsOf(seq, id) : i <= j)

\* elementsToRemove.forEach: document.getElementById(id) is the first element
\* with the id in document order, the head before the body
RECURSIVE RemoveElements(_, _)
RemoveElements(page, k) ==
    IF k > Len(elementsToRemove) THEN page
    ELSE LET id == elementsToRemove[k]
         IN  IF PositionsOf(page.headHTML, id) # {}
             THEN RemoveElements([page EXCEPT !.headHTML = RemoveFirst(@, id)], k + 1)
             ELSE RemoveElements([page EXCEPT !.bodyHTML = RemoveFirst(@, id)], k + 1)

\* if (originalPageState) { document.head.innerHTML = ...; document.body.innerHTML = ... }
Restored(removed, saved) ==
    IF saved.saved
    THEN [headHTML |-> saved.headHTML, bodyHTML |-> saved.bodyHTML]
    ELSE removed

\* the body of enableImmersiveMode for content of this trimmed length: the
\* state of the page is saved, the container and the close button are
\* appended to the body and the style to the head
enableImmersiveMode(length) ==
    IF length < MinContentLength
    THEN UNCHANGED <<headHTML, bodyHTML, originalPageState, closeListeners,
                     pageBefore, enables, lastCall>>
    ELSE /\ originalPageState' = [headHTML |-> headHTML, bodyHTML |-> bodyHTML,
                                  saved |-> TRUE]
         /\ bodyHTML' = bodyHTML \o <<"immersive-container", "immersive-close">>
         /\ headHTML' = Append(headHTML, "immersive-reading-style")
         /\ closeListeners' = closeListeners + 1
         /\ pageBefore' = IF enables = 0
                          THEN [headHTML |-> headHTML, bodyHTML |-> bodyHTML]
                          ELSE pageBefore
         /\ enables' = enables + 1
         /\ lastCall' = "enable"

\* const safeSendResponse: sendResponse is called if it was not called before
safeSendResponse(sent, response) ==
    IF Len(sent) = 0 THEN Append(sent, response) ELSE sent

\* a catch block that does not respond
Caught_Silent(sent) == sent

\* catch (error) { safeSendResponse({ error: error.message }); return false }
Caught(sent) == safeSendResponse(sent, "error")

\* the listener handles one message.  throws: in the extractMainContent
\* branch extractMainContent() throws; in the enableImmersiveMode branch the
\* async function throws before it changes anything, which rejects its
\* promise (the .catch handler alerts) and is not thrown to the listener
onMessage(action, length, throws) ==
    /\ received < MaxMessages
    /\ action = "enableImmersiveMode" /\ ~throws /\ length >= MinContentLength
         => enables < MaxEnables
    /\ received' = received + 1
    /\ request' = [action |-> action, content |-> length, throws |-> throws]
    /\ IF action = "null"
       THEN /\ responses' = Caught(<<>>)
            /\ UNCHANGED <<headHTML, bodyHTML, originalPageState, closeListeners,
                           pageBefore, enables, lastCall>>
       ELSE IF action = "extractMainContent"
       THEN /\ responses' = IF throws THEN Caught(<<>>)
                            ELSE safeSendResponse(<<>>, "content")
            /\ UNCHANGED <<headHTML, bodyHTML, originalPageState, closeListeners,
                           pageBefore, enables, lastCall>>
       ELSE IF action = "enableImmersiveMode"
       THEN /\ IF throws
               THEN UNCHANGED <<headHTML, bodyHTML, originalPageState,
                                closeListeners, pageBefore, enables, lastCall>>
               ELSE enableImmersiveMode(length)
            /\ responses' = safeSendResponse(<<>>, "immersive mode enabled")
       ELSE /\ responses' = safeSendResponse(<<>>, "unknown action")
            /\ UNCHANGED <<headHTML, bodyHTML, originalPageState, closeListeners,
                           pageBefore, enables, lastCall>>
    /\ UNCHANGED <<clientVars, backendVars, cacheVars, optionVars, stringVars,
                   simVars, pageVars>>

messageReceived ==
    \E action \in RequestActions, length \in ContentLengths, throws \in BOOLEAN :
        /\ throws => action \in {"extractMainContent", "enableImmersiveMode"}
        /\ onMessage(action, length, throws)

\* a click on a close button that has the listener: disableImmersiveMode
disableImmersiveMode ==
    /\ closeListeners > 0
    /\ LET removed == RemoveElements([headHTML |-> headHTML, bodyHTML |-> bodyHTML], 1)
           page == Restored(removed, originalPageState)
       IN  /\ headHTML' = page.headHTML
           /\ bodyHTML' = page.bodyHTML
           /\ closeListeners' = IF originalPageState.saved THEN 0
                                ELSE closeListeners - 1
    /\ enables' = 0
    /\ lastCall' = "disable"
    /\ UNCHANGED <<originalPageState, pageBefore, request, responses, received>>
    /\ UNCHANGED <<clientVars, backendVars, cacheVars, optionVars, stringVars,
                   simVars, pageVars>>

ContentNext ==
    \/ messageReceived
    \/ disableImmersiveMode

SpecContent == InitContent /\ [][ContentNext]_vars

(***************************************************************************)
(* MainPage: handleGenerate calls generateQuestion, which runs             *)
(* uploadMarkdownContent; the callback it passes stores the id of the poll *)
(* interval in pollIntervalId in the step that creates the interval, and   *)
(* the questions the promise resolves with are written to the question     *)
(* list in the step that resolves it.                                      *)
(***************************************************************************)
\* let pollIntervalId of MainPage is set: pollFileStatus has handed the id
\* of its interval to onIntervalCreated
PollIntervalIdSet == cpc = "poll"

\* handleExit, after handleGenerate was started: clearInterval(pollIntervalId)
\* if the id is set; requests that are waiting for their answer go on
handleExit ==
    /\ cpc # "init"
    /\ ~exited
    /\ exited' = TRUE
    /\ intervalActive' = IF PollIntervalIdSet THEN FALSE ELSE intervalActive
    /\ UNCHANGED <<cpc, uploadAnswer, generateAnswer, generateSent, attempts,
                   inflight, observed, lastTick, qInflight, questionsSent,
                   onCompletedCalls, onFailedCalls, settled>>
    /\ UNCHANGED <<backendVars, cacheVars, optionVars, stringVars, simVars,
                   contentVars>>

MainPageNext ==
    \/ uploadMarkdownContent
    \/ uploadAnswered
    \/ generateAnswered
    \/ pollTick
    \/ pollTickAnswered
    \/ questionsAnswered
    \/ handleExit

SpecMainPage == Init /\ [][MainPageNext]_vars

(***************************************************************************)
(* Properties of the client.                                               *)
(***************************************************************************)
\* the polling was started by processAfterUpload
PollStarted == generateAnswer = "Ok"

TerminalSeen == observed \cap {"Completed", "Failed"} # {}

\* C1: requests go out in the order upload, generate, status polls, fetch
\* questions: generate only after the upload answered OK, status polls only
\* after generate answered OK, GET /questions only after a poll returned
\* 'Completed', and never once onFailed ran (status 'Failed', or gave up).
C1_RequestOrder ==
    /\ generateSent > 0 => uploadAnswer = "Ok"
    /\ attempts > 0 => generateAnswer = "Ok"
    /\ questionsSent > 0 => "Completed" \in observed
    /\ lastTick.cb = "completed" => onFailedCalls = 0

\* The part of C1 that the code keeps: each request follows the OK answer (or
\* the 'Completed' status) it depends on.
C1_OrderOfDependentRequests ==
    /\ generateSent > 0 => uploadAnswer = "Ok"
    /\ attempts > 0 => generateAnswer = "Ok"
    /\ questionsSent > 0 => "Completed" \in observed
    /\ questionsSent = onCompletedCalls

\* C2: polling is bounded for every sequence of answers: once maxAttempts
\* ticks have run and all of them are answered, the interval is cleared and
\* onCompleted or onFailed has been invoked.
C2_PollingBounded ==
    (attempts >= maxAttempts /\ inflight = 0)
        => (~intervalActive /\ onCompletedCalls + onFailedCalls > 0)

\* C3: once a tick observed 'Completed' or 'Failed' the interval is cleared
\* and no later tick sends a status request; while every observed status is
\* 'Pending' or 'Processing' and fewer than maxAttempts attempts were made,
\* the interval stays active.
C3_PollsUntilTerminal ==
    /\ [](TerminalSeen => ~intervalActive)
    /\ [][TerminalSeen => attempts' = attempts]_vars
    /\ []((PollStarted /\ attempts < maxAttempts
            /\ (observed \cap StatusValues) \subseteq {"Pending", "Processing"})
           => intervalActive)

\* C3 witness: a terminal status was observed before the attempts ran out,
\* after some non-terminal ones, and the interval is cleared.
C3_Witness ==
    /\ "Pending" \in observed
    /\ lastTick.answer \in {"Completed", "Failed"}
    /\ lastTick.attempts > 1
    /\ lastTick.attempts < maxAttempts
    /\ ~intervalActive

\* C7 (client side): a 404 answer to the status request is surfaced as
\* not-found, that is, the tick does not do with it what it does with a
\* 'Pending' status at the same number of attempts.
C7_NotFoundHandledDistinctly ==
    lastTick.answer = "Http404" =>
        [clear |-> lastTick.clear, cb |-> lastTick.cb]
            # HandleStatus("Pending", lastTick.attempts)

(***************************************************************************)
(* Properties of the backend.                                              *)
(***************************************************************************)
StatusRank(st) ==
    CASE st = "NotFound" -> 0
      [] st = "Pending" -> 1
      [] st = "Processing" -> 2
      [] OTHER -> 3

\* the pipeline runs started for file f
RunsOf(f) == {p \in Procs : proc[p].fid = f /\ proc[p].pc \notin {"idle", "noop"}}

\* the chunks of f that have questions in the Metadata Store
WithQuestions(q, f) == {i \in ChunkIndices(f) : q[<<f, i>>] > 0}

\* C4: under upload, generate and pipeline steps the status of every file_id
\* only moves forward along Pending, Processing, (Completed | Failed) and
\* never changes once it is Completed or Failed.
C4_StatusMonotonic ==
    [][\A f \in FileIds :
        status'[f] # status[f] => StatusRank(status[f]) < StatusRank(status'[f])]_vars

\* C5: however the generate requests for one file_id interleave, exactly one
\* pipeline run is started for it.
C5_OnePipelineRun == \A f \in FileIds : Cardinality(RunsOf(f)) <= 1

\* C6: GET /questions/{file_id} answers 200 with the question list only when
\* the status is Completed; for every other status, and for no status, it
\* answers an error and returns no questions.
C6_QuestionsOnlyWhenCompleted ==
    [][(resp' # resp /\ resp'.op = "questions") =>
        LET f == resp'.fid IN
        /\ resp'.code = 200 => status[f] = "Completed"
        /\ status[f] # "Completed" => (resp'.code = 400 /\ resp'.rows = {})]_vars

\* C6 witness: questions of some chunks are stored while the file is still
\* Processing, and the request for them was answered 400.
C6_Witness ==
    /\ resp.op = "questions"
    /\ resp.code = 400
    /\ status[resp.fid] = "Processing"
    /\ WithQuestions(questions, resp.fid) # {}

Completes(p) == proc[p].pc \in {"load", "gen", "finish"} /\ proc'[p].pc = "done"

\* C10 as stated: when a run completes, every chunk was attempted, questions
\* are stored for exactly the chunks that succeeded, and the status is
\* Completed if at least one chunk succeeded and Failed if all chunks failed.
C10_PartialFailureAsStated ==
    [][\A p \in Procs : Completes(p) =>
        LET f == proc[p].fid IN
        /\ proc[p].next = Cardinality(ChunkIndices(f))
        /\ WithQuestions(questions', f) = proc[p].ok
        /\ status'[f] = IF proc[p].ok # {} THEN "Completed" ELSE "Failed"]_vars

\* C10 amended: when a run completes, every chunk was attempted and
\* questions are stored for exactly the chunks that succeeded; the status
\* is Completed if at least one chunk succeeded or the document has no
\* chunks, and Failed if it has chunks and all of them failed.
C10_PartialFailure ==
    [][\A p \in Procs : Completes(p) =>
        LET f == proc[p].fid IN
        /\ proc[p].next = Cardinality(ChunkIndices(f))
        /\ WithQuestions(questions', f) = proc[p].ok
        /\ status'[f] = IF proc[p].ok # {} \/ ChunkIndices(f) = {}
                        THEN "Completed" ELSE "Failed"]_vars

\* C10 witness: the first chunk failed, the last one was still attempted and
\* succeeded, and the document is Completed.
C10_Witness ==
    \E f \in FileIds, p \in Procs :
        /\ proc[p] = Ended("done", f)
        /\ status[f] = "Completed"
        /\ 0 \in ChunkIndices(f) /\ questions[<<f, 0>>] = 0
        /\ questions[<<f, DocChunks - 1>>] = 1

(***************************************************************************)
(* Properties of MainPage.                                                 *)
(***************************************************************************)
\* the cache holds an entry for the text that is less than 3600000 ms old
FreshEntry(text) ==
    answersCache[text].present /\ now - answersCache[text].timestamp < 3600000

\* C11: loadAnswerForQuestion shows the cached answer and issues no
\* generateAnswer request exactly when answersCache holds an entry for the
\* question's text that is less than 3600000 ms old, and issues a request
\* otherwise; the cache is written only when a request resolves, and a
\* rejected request leaves it unchanged.
C11_AnswerCache ==
    /\ [][\A index \in QuestionIndices : loadAnswerForQuestion(index) =>
            IF FreshEntry(QuestionAt(index))
            THEN /\ displayedAnswers'[index] = answersCache[QuestionAt(index)].answer
                 /\ answerRequests' = answerRequests
                 /\ answerInflight' = answerInflight
            ELSE /\ answerRequests' = answerRequests + 1
                 /\ index \in answerInflight']_vars
    /\ [][answersCache' # answersCache =>
            \E index \in answerInflight, answer \in Answers :
                /\ answerInflight' = answerInflight \ {index}
                /\ displayedAnswers'[index] = answer
                /\ answersCache' = [answersCache EXCEPT ![QuestionAt(index)] =
                        [present |-> TRUE, answer |-> answer, timestamp |-> now]]]_vars
    /\ [][\A index \in QuestionIndices :
            answerRejected(index) => answersCache' = answersCache]_vars

\* C11 witness: the answer of another entry with the same text, cached just
\* under an hour ago, is shown although no request was made for this entry
\* and the server's latest answer was rejected.
C11_Witness ==
    /\ answersCache["q1"].present
    /\ now - answersCache["q1"].timestamp = 3600000 - 1
    /\ displayedAnswers[0] = "failed"
    /\ displayedAnswers[1] = answersCache["q1"].answer
    /\ answerRequests = 2
    /\ answerInflight = {}

\* what getOptions returns when its read of the storage succeeds
Returned(store) == MergedOptions(store)

\* C12 as stated: getOptions returns for each key the value of the most
\* recent saveOptions call that named it since the last resetOptions call,
\* and the value of defaultOptions for every other key.
C12_OptionsAsStated ==
    [][\A ok \in BOOLEAN : getOptions(ok) =>
        gotOptions' = [k \in OptionKeys |->
            IF setSince[k] # "unset" THEN setSince[k] ELSE defaultOptions[k]]]_vars

\* C12 amended: a saveOptions whose write succeeds makes getOptions return
\* the given values for the keys it names and leaves the other keys as they
\* were; a resetOptions whose clear succeeds makes it return defaultOptions;
\* a rejected write or clear changes nothing; getOptions returns the stored
\* values over the defaults when its read succeeds and defaultOptions when
\* the read is rejected.
C12_Options ==
    /\ [][\A options \in SaveInputs : saveOptions(options, TRUE) =>
            \A k \in OptionKeys :
                Returned(syncStorage')[k] =
                    IF options[k] # "unset" THEN options[k]
                    ELSE Returned(syncStorage)[k]]_vars
    /\ [][resetOptions(TRUE) => Returned(syncStorage') = defaultOptions]_vars
    /\ [][storageFailures' # storageFailures =>
            Returned(syncStorage') = Returned(syncStorage)]_vars
    /\ [][\A ok \in BOOLEAN : getOptions(ok) =>
            gotOptions' = IF ok
                          THEN [k \in OptionKeys |->
                                  IF syncStorage[k] \in {"true", "false"} THEN syncStorage[k]
                                  ELSE defaultOptions[k]]
                          ELSE defaultOptions]_vars
    /\ [](gotOptions # NoOptions =>
            \A k \in OptionKeys \ SavedKeys : gotOptions[k] = defaultOptions[k])

\* C12 witness: getOptions returned a value saved before the last save, a
\* value of the last save and a default, with no reset or failure between.
C12_Witness ==
    /\ storageFailures = 0
    /\ gotOptions.useDeffudle = "true" /\ setSince.useDeffudle = "true"
    /\ gotOptions.useReadability = "false" /\ setSince.useReadability = "false"
    /\ gotOptions.showConfetti = "false" /\ setSince.showConfetti = "unset"

\* the Levenshtein distance of two strings: the least number of insertions,
\* deletions and substitutions of one character that turn a into b
RECURSIVE Levenshtein(_, _)
Levenshtein(a, b) ==
    IF a = <<>> THEN Len(b)
    ELSE IF b = <<>> THEN Len(a)
    ELSE LET deletion == Levenshtein(Tail(a), b) + 1
             insertion == Levenshtein(a, Tail(b)) + 1
             substitution == Levenshtein(Tail(a), Tail(b)) +
                             (IF Head(a) = Head(b) THEN 0 ELSE 1)
         IN Min(Min(deletion, insertion), substitution)

\* C13: editDistance(s1, s2) is the Levenshtein distance between the
\* lower-cased s1 and the lower-cased s2.
C13_EditDistance ==
    edResult # -1 => edResult = Levenshtein(toLowerCase(str1), toLowerCase(str2))

\* C13 witness: the distance of two strings of different lengths, one with
\* an upper-case letter, where a deletion is the shortest edit.
C13_Witness ==
    /\ str1 = <<"A", "b">>
    /\ str2 = <<"b">>
    /\ edResult = 1

\* C14: similarity(s1, s2) is between 0 and 1 inclusive, and it is 1 exactly
\* when the two strings are equal ignoring case.
C14_SimilarityRange ==
    simResult # <<0, 0>> =>
        /\ 0 <= simResult[1] /\ simResult[1] <= simResult[2]
        /\ simResult[1] = simResult[2] <=> toLowerCase(str1) = toLowerCase(str2)

\* C15: every generateQuestion call of the simulated API resolves with
\* between 5 and 7 questions that are pairwise distinct and all taken from
\* the 8 sample questions, whatever the text.
C15_SimulatedQuestions ==
    /\ [][(simPending /\ ~simPending') =>
            /\ simText' \in SelectedTexts
            /\ Len(simQuestions') >= 5 /\ Len(simQuestions') <= 7
            /\ \A i, j \in 1 .. Len(simQuestions') :
                    i # j => simQuestions'[i] # simQuestions'[j]
            /\ \A i \in 1 .. Len(simQuestions') :
                    \E k \in 1 .. 8 : simQuestions'[i] = sampleQuestions[k]]_vars
    /\ [](simPending => simQuestions = <<>>)
    /\ Len(sampleQuestions) = 8

\* C15 witness: a call with a text resolved with seven questions that are
\* not in the order of the sample list.
C15_Witness ==
    /\ simText = "long"
    /\ ~simPending
    /\ Len(simQuestions) = 7
    /\ simQuestions[1] = "deeper"
    /\ simQuestions[7] = "basis"

\* C16: for one pollFileStatus call at most one of onCompleted and onFailed
\* is invoked, and at most once, also when several ticks are waiting for
\* their answers at the same time.
C16_ExactlyOneCallback == onCompletedCalls + onFailedCalls <= 1

\* C17: after handleExit has run, no status poll is issued for the
\* generation and its questions are not written to the question list.
C17_ExitStopsPolling ==
    [][exited => /\ attempts' = attempts
                 /\ settled = "None" => settled' # "questions"]_vars

\* C19: the promise of a generateQuestion call settles: when the interval is
\* no longer active and no request is waiting for its answer, it has
\* settled.
C19_GenerationSettles ==
    (cpc \in {"poll", "returned"} /\ ~intervalActive /\ inflight = 0 /\ qInflight = 0)
        => settled # "None"

(***************************************************************************)
(* Properties of the content script                                        *)
(***************************************************************************)
ImmersiveIds == {"immersive-container", "immersive-close", "immersive-reading-style"}

\* C18: after one or more enableImmersiveMode calls with content of at
\* least 500 characters and one disableImmersiveMode, the head and the body
\* of the document are what they were before the first of these calls, and
\* the page has no element with the id immersive-container, immersive-close
\* or immersive-reading-style.
C18_DisableRestoresOriginal ==
    lastCall = "disable" =>
        /\ headHTML = pageBefore.headHTML
        /\ bodyHTML = pageBefore.bodyHTML
        /\ (Range(headHTML) \cup Range(bodyHTML)) \cap ImmersiveIds = {}

\* C20: for every message it receives the listener calls sendResponse
\* exactly once, for each action and also when handling the action throws.
C20_OneResponsePerMessage == received > 0 => Len(responses) = 1

\* extractMainContent() threw and the listener answered with the error
C20_Witness ==
    /\ request.action = "extractMainContent"
    /\ request.throws
    /\ responses = <<"error">>

====
